---- MODULE Spec2Model ----
(***************************************************************************)
(* Model of src/voice/scripts/faster_whisper_stt.py: one invocation of     *)
(* main().  Each action is one statement (or one external call) of main(); *)
(* the outcome of every external call (import, engine constructor, file    *)
(* and stream I/O, engine transcription, segment pulls, metadata reads,    *)
(* serialisation, unlink) is chosen nondeterministically among the         *)
(* outcomes it can have.  Strings that are computed on (segment text) are  *)
(* sequences of one-character strings.                                     *)
(***************************************************************************)
EXTENDS Integers, Sequences, FiniteSets, TLC

\* ------------------------------------------------------------------ bounds
MaxSegs == 2          \* longest segment sequence the engine produces
MaxBytes == 2         \* longest standard-input byte sequence

\* ------------------------------------------------------------- value domains
None == "<None>"                       \* Python None (argparse default, temp_file = None)
TmpPath == "/tmp/tmpXXXX.wav"          \* the name NamedTemporaryFile(suffix='.wav') picks
UserPath == "/a.wav"                   \* a caller file that exists
MissingPath == "/nonexistent.wav"      \* a caller path that does not exist
FileArgs == {None, "", UserPath, MissingPath}
Bytes == {0, 1}
Whitespace == {" ", "\t"}
Fragments == {<< >>, <<"a">>, <<" ", "b">>, <<"a", " ">>, <<"\t">>}
ErrTexts == {"e1", "e2"}
Infos == {[language |-> "en", language_probability |-> 1, duration |-> 2]}

RECURSIVE SeqsUpTo(_, _)
SeqsUpTo(S, n) ==
  IF n = 0 THEN {<< >>}
  ELSE LET shorter == SeqsUpTo(S, n - 1)
       IN  shorter \cup {Append(s, x) : s \in {t \in shorter : Len(t) = n - 1}, x \in S}

VARIABLES
  argFile,      \* args.file
  stdinData,    \* the bytes waiting on standard input
  segs,         \* the segments the engine would produce for this audio
  pc,           \* position in main()
  files,        \* the paths that exist in the file system
  tmpContent,   \* bytes written through the temporary file's handle
  tmpClosed,    \* temp_file.close() has returned
  stdinBuf,     \* value of sys.stdin.buffer.read(), until it is written
  audio_file,   \* local audio_file
  temp_file,    \* local temp_file: None, or the handle (identified by its name)
  consumed,     \* number of segments pulled from the iterator so far
  text_parts,   \* local text_parts
  info,         \* the metadata object returned by transcribe: << >> before, <<meta>> after
  result,       \* local result: << >> before it is built, <<dict>> after
  exc,          \* the text of the exception being handled, None if none
  pending,      \* exception in flight while the finally block runs
  stdout,       \* the JSON objects written to standard output, in order
  exitCode,     \* process exit status, -1 while running
  uncaught,     \* the exception that ended the process with a traceback, None if none
  events        \* history: the calls made so far, in order ("x_raise": call x raised)

vars == <<argFile, stdinData, segs, pc, files, tmpContent, tmpClosed, stdinBuf,
          audio_file, temp_file, consumed, text_parts, info, result, exc,
          pending, stdout, exitCode, uncaught, events>>

inputs == <<argFile, stdinData, segs>>

\* ----------------------------------------------------------- pure helpers

\* variant of Join: ''.join(text_parts), the separator forgotten
RECURSIVE Join_NoSeparator(_)
Join_NoSeparator(parts) ==
  IF parts = << >> THEN << >> ELSE parts[1] \o Join_NoSeparator(Tail(parts))

\* ' '.join(text_parts)
RECURSIVE Join(_)
Join(parts) ==
  IF parts = << >> THEN << >>
  ELSE IF Len(parts) = 1 THEN parts[1]
  ELSE parts[1] \o <<" ">> \o Join(Tail(parts))

\* str.lstrip() / str.rstrip() / str.strip() with no argument
RECURSIVE LStrip(_)
LStrip(s) ==
  IF s # << >> /\ Head(s) \in Whitespace THEN LStrip(Tail(s)) ELSE s

RECURSIVE RStrip(_)
RStrip(s) ==
  IF s # << >> /\ s[Len(s)] \in Whitespace THEN RStrip(SubSeq(s, 1, Len(s) - 1)) ELSE s

Strip(s) == RStrip(LStrip(s))

\* ' '.join(text_parts).strip()
ResultText(parts) == Strip(Join(parts))

\* text_parts.append(segment.text)
AppendPart(parts, fragment) == Append(parts, fragment)

\* `not audio_file`: None and the empty string are both falsy
UseStdin(f) == f = None \/ f = ""

\* the two Result shapes
SuccessResult(text, meta) ==
  [success |-> TRUE, text |-> text, language |-> meta.language,
   language_probability |-> meta.language_probability, duration |-> meta.duration]

FailureResult(prefix, detail) ==
  [success |-> FALSE, error |-> <<prefix, detail>>]

ImportErrorResult ==
  FailureResult("faster-whisper not installed. Run: pip install faster-whisper", "")
ModelErrorResult(e) == FailureResult("Failed to load model: ", e)
TranscriptionErrorResult(e) == FailureResult("Transcription failed: ", e)

\* the process ends: status and, for an unhandled exception, its type
Exit(status, unhandled) ==
  /\ pc' = "done"
  /\ exitCode' = status
  /\ uncaught' = unhandled

Log(e) == events' = Append(events, e)

\* ------------------------------------------------------------------ Init
Init ==
  /\ argFile \in FileArgs
  /\ stdinData \in SeqsUpTo(Bytes, MaxBytes)
  /\ segs \in SeqsUpTo(Fragments, MaxSegs)
  /\ pc = "import"
  /\ files = {UserPath}
  /\ tmpContent = << >>
  /\ tmpClosed = FALSE
  /\ stdinBuf = << >>
  /\ audio_file = None
  /\ temp_file = None
  /\ consumed = 0
  /\ text_parts = << >>
  /\ info = << >>
  /\ result = << >>
  /\ exc = None
  /\ pending = None
  /\ stdout = << >>
  /\ exitCode = -1
  /\ uncaught = None
  /\ events = << >>

\* ------------------------------------------------ lines 23-30: the import
ImportOk ==
  /\ pc = "import"
  /\ pc' = "load_model"
  /\ UNCHANGED <<inputs, files, tmpContent, tmpClosed, stdinBuf, audio_file, temp_file,
                 consumed, text_parts, info, result, exc, pending, stdout, exitCode,
                 uncaught, events>>

\* variant of ImportMissing: the failure Result is printed but sys.exit(1) is missing
ImportMissing_NoExit ==
  /\ pc = "import"
  /\ stdout' = Append(stdout, ImportErrorResult)
  /\ events' = events \o <<"import_raise", "stdout_write">>
  /\ pc' = "load_model"
  /\ UNCHANGED <<inputs, files, tmpContent, tmpClosed, stdinBuf, audio_file, temp_file,
                 consumed, text_parts, info, result, exc, pending, exitCode, uncaught>>

\* ImportError: print the failure Result, sys.exit(1)
ImportMissing ==
  /\ pc = "import"
  /\ stdout' = Append(stdout, ImportErrorResult)
  /\ events' = events \o <<"import_raise", "stdout_write">>
  /\ Exit(1, None)
  /\ UNCHANGED <<inputs, files, tmpContent, tmpClosed, stdinBuf, audio_file, temp_file,
                 consumed, text_parts, info, result, exc, pending>>

\* ------------------------------------- lines 33-44: the engine constructor
LoadModelOk ==
  /\ pc = "load_model"
  /\ Log("ctor")
  /\ pc' = "resolve"
  /\ UNCHANGED <<inputs, files, tmpContent, tmpClosed, stdinBuf, audio_file, temp_file,
                 consumed, text_parts, info, result, exc, pending, stdout, exitCode,
                 uncaught>>

\* except Exception as e: print the failure Result, sys.exit(1)
LoadModelFail ==
  /\ pc = "load_model"
  /\ \E e \in ErrTexts :
       stdout' = Append(stdout, ModelErrorResult(e))
  /\ events' = events \o <<"ctor_raise", "stdout_write">>
  /\ Exit(1, None)
  /\ UNCHANGED <<inputs, files, tmpContent, tmpClosed, stdinBuf, audio_file, temp_file,
                 consumed, text_parts, info, result, exc, pending>>

\* --------------------------------------- lines 46-55: the audio source
\* audio_file = args.file; temp_file = None; if not audio_file: ...
ResolveSource ==
  /\ pc = "resolve"
  /\ audio_file' = argFile
  /\ temp_file' = None
  /\ pc' = IF UseStdin(argFile) THEN "mktemp" ELSE "transcribe"
  /\ UNCHANGED <<inputs, files, tmpContent, tmpClosed, stdinBuf, consumed, text_parts,
                 info, result, exc, pending, stdout, exitCode, uncaught, events>>

\* line 52: tempfile.NamedTemporaryFile(suffix='.wav', delete=False)
MakeTempOk ==
  /\ pc = "mktemp"
  /\ temp_file' = TmpPath
  /\ files' = files \cup {TmpPath}
  /\ Log("tmp_create")
  /\ pc' = "read_stdin"
  /\ UNCHANGED <<inputs, tmpContent, tmpClosed, stdinBuf, audio_file, consumed,
                 text_parts, info, result, exc, pending, stdout, exitCode, uncaught>>

\* line 52 raises (no writable temporary directory): not inside any try
MakeTempFail ==
  /\ pc = "mktemp"
  /\ Log("mktemp_raise")
  /\ Exit(1, "OSError")
  /\ UNCHANGED <<inputs, files, tmpContent, tmpClosed, stdinBuf, audio_file, temp_file,
                 consumed, text_parts, info, result, exc, pending, stdout>>

\* variant of ReadStdinOk: a single bounded read (read1 / read(n)) instead of a
\* read up to end-of-stream: only the first chunk is taken
ReadStdinOk_Partial ==
  /\ pc = "read_stdin"
  /\ stdinBuf' = (IF stdinData = << >> THEN << >> ELSE <<Head(stdinData)>>)
  /\ Log("stdin_read")
  /\ pc' = "write_tmp"
  /\ UNCHANGED <<inputs, files, tmpContent, tmpClosed, audio_file, temp_file, consumed,
                 text_parts, info, result, exc, pending, stdout, exitCode, uncaught>>

\* line 53, the argument: sys.stdin.buffer.read()
ReadStdinOk ==
  /\ pc = "read_stdin"
  /\ stdinBuf' = stdinData
  /\ Log("stdin_read")
  /\ pc' = "write_tmp"
  /\ UNCHANGED <<inputs, files, tmpContent, tmpClosed, audio_file, temp_file, consumed,
                 text_parts, info, result, exc, pending, stdout, exitCode, uncaught>>

\* line 53: the read raises; not inside any try, so the process ends with a traceback
ReadStdinFail ==
  /\ pc = "read_stdin"
  /\ Log("stdin_read_raise")
  /\ Exit(1, "OSError")
  /\ UNCHANGED <<inputs, files, tmpContent, tmpClosed, stdinBuf, audio_file, temp_file,
                 consumed, text_parts, info, result, exc, pending, stdout>>

\* line 53, the call: temp_file.write(...)
WriteTempOk ==
  /\ pc = "write_tmp"
  /\ tmpContent' = tmpContent \o stdinBuf
  /\ Log("tmp_write")
  /\ pc' = "close_tmp"
  /\ UNCHANGED <<inputs, files, tmpClosed, stdinBuf, audio_file, temp_file, consumed,
                 text_parts, info, result, exc, pending, stdout, exitCode, uncaught>>

WriteTempFail ==
  /\ pc = "write_tmp"
  /\ Log("tmp_write_raise")
  /\ Exit(1, "OSError")
  /\ UNCHANGED <<inputs, files, tmpContent, tmpClosed, stdinBuf, audio_file, temp_file,
                 consumed, text_parts, info, result, exc, pending, stdout>>

\* lines 54-55: temp_file.close(); audio_file = temp_file.name
CloseTempOk ==
  /\ pc = "close_tmp"
  /\ tmpClosed' = TRUE
  /\ audio_file' = temp_file
  /\ Log("tmp_close")
  /\ pc' = "transcribe"
  /\ UNCHANGED <<inputs, files, tmpContent, stdinBuf, temp_file, consumed, text_parts,
                 info, result, exc, pending, stdout, exitCode, uncaught>>

CloseTempFail ==
  /\ pc = "close_tmp"
  /\ Log("tmp_close_raise")
  /\ Exit(1, "OSError")
  /\ UNCHANGED <<inputs, files, tmpContent, tmpClosed, stdinBuf, audio_file, temp_file,
                 consumed, text_parts, info, result, exc, pending, stdout>>

\* ------------------------------------- lines 57-69: transcribe and collect
\* lines 59-67: model.transcribe(audio_file, ...) returns (segments, info); the engine
\* opens the path when it is called, so a path that does not exist makes it raise
TranscribeOk ==
  /\ pc = "transcribe"
  /\ audio_file \in files
  /\ \E meta \in Infos : info' = <<meta>>
  /\ consumed' = 0
  /\ text_parts' = << >>
  /\ Log("transcribe")
  /\ pc' = "pull"
  /\ UNCHANGED <<inputs, files, tmpContent, tmpClosed, stdinBuf, audio_file, temp_file,
                 result, exc, pending, stdout, exitCode, uncaught>>

\* variant of TranscribeFail: the failed call is attempted again (a retry loop)
TranscribeFail_Retry ==
  /\ pc = "transcribe"
  /\ \E e \in ErrTexts : exc' = e
  /\ Log("transcribe_raise")
  /\ UNCHANGED <<inputs, pc, files, tmpContent, tmpClosed, stdinBuf, audio_file,
                 temp_file, consumed, text_parts, info, result, pending, stdout,
                 exitCode, uncaught>>

\* model.transcribe raises: control goes to `except Exception as e` (line 81)
TranscribeFail ==
  /\ pc = "transcribe"
  /\ \E e \in ErrTexts : exc' = e
  /\ Log("transcribe_raise")
  /\ pc' = "except"
  /\ UNCHANGED <<inputs, files, tmpContent, tmpClosed, stdinBuf, audio_file, temp_file,
                 consumed, text_parts, info, result, pending, stdout, exitCode, uncaught>>

\* lines 68-69: one pull yields the next segment; text_parts.append(segment.text)
PullSegment ==
  /\ pc = "pull"
  /\ consumed < Len(segs)
  /\ consumed' = consumed + 1
  /\ text_parts' = AppendPart(text_parts, segs[consumed + 1])
  /\ Log("pull")
  /\ UNCHANGED <<inputs, pc, files, tmpContent, tmpClosed, stdinBuf, audio_file,
                 temp_file, info, result, exc, pending, stdout, exitCode, uncaught>>

\* variant of PullFail: the error of a pull is swallowed and ends the loop
PullFail_Swallowed ==
  /\ pc = "pull"
  /\ \E e \in ErrTexts : exc' = e
  /\ Log("pull_raise")
  /\ pc' = "build"
  /\ UNCHANGED <<inputs, files, tmpContent, tmpClosed, stdinBuf, audio_file, temp_file,
                 consumed, text_parts, info, result, pending, stdout, exitCode, uncaught>>

\* line 68: the pull raises (decoding fails mid-stream)
PullFail ==
  /\ pc = "pull"
  /\ \E e \in ErrTexts : exc' = e
  /\ Log("pull_raise")
  /\ pc' = "except"
  /\ UNCHANGED <<inputs, files, tmpContent, tmpClosed, stdinBuf, audio_file, temp_file,
                 consumed, text_parts, info, result, pending, stdout, exitCode, uncaught>>

\* variant of PullEnd: the loop is left before the sequence is exhausted (a break)
PullEnd_Early ==
  /\ pc = "pull"
  /\ Log("pull_end")
  /\ pc' = "build"
  /\ UNCHANGED <<inputs, files, tmpContent, tmpClosed, stdinBuf, audio_file, temp_file,
                 consumed, text_parts, info, result, exc, pending, stdout, exitCode,
                 uncaught>>

\* line 68: the pull reports the end of the sequence; the loop ends
PullEnd ==
  /\ pc = "pull"
  /\ consumed = Len(segs)
  /\ Log("pull_end")
  /\ pc' = "build"
  /\ UNCHANGED <<inputs, files, tmpContent, tmpClosed, stdinBuf, audio_file, temp_file,
                 consumed, text_parts, info, result, exc, pending, stdout, exitCode,
                 uncaught>>

\* ------------------------------------------ lines 71-79: the success Result
\* lines 71-77: join, strip, and read info.language, .language_probability, .duration
BuildResult ==
  /\ pc = "build"
  /\ result' = <<SuccessResult(ResultText(text_parts), info[1])>>
  /\ Log("meta_read")
  /\ pc' = "print"
  /\ UNCHANGED <<inputs, files, tmpContent, tmpClosed, stdinBuf, audio_file, temp_file,
                 consumed, text_parts, info, exc, pending, stdout, exitCode, uncaught>>

\* lines 74-76: reading a metadata attribute raises
BuildResultFail ==
  /\ pc = "build"
  /\ \E e \in ErrTexts : exc' = e
  /\ Log("meta_read_raise")
  /\ pc' = "except"
  /\ UNCHANGED <<inputs, files, tmpContent, tmpClosed, stdinBuf, audio_file, temp_file,
                 consumed, text_parts, info, result, pending, stdout, exitCode, uncaught>>

\* line 79: print(json.dumps(result)); the try block ends normally
PrintResult ==
  /\ pc = "print"
  /\ stdout' = Append(stdout, result[1])
  /\ Log("stdout_write")
  /\ pending' = None
  /\ pc' = "finally"
  /\ UNCHANGED <<inputs, files, tmpContent, tmpClosed, stdinBuf, audio_file, temp_file,
                 consumed, text_parts, info, result, exc, exitCode, uncaught>>

\* variant of SerializeFail: the Result is streamed (json.dump(result, sys.stdout)),
\* so its text is already on standard output when the serialisation raises
SerializeFail_Streamed ==
  /\ pc = "print"
  /\ \E e \in ErrTexts : exc' = e
  /\ stdout' = Append(stdout, result[1])
  /\ Log("dumps_raise")
  /\ pc' = "except"
  /\ UNCHANGED <<inputs, files, tmpContent, tmpClosed, stdinBuf, audio_file, temp_file,
                 consumed, text_parts, info, result, pending, exitCode, uncaught>>

\* line 79: json.dumps(result) raises (a value that is not serialisable)
SerializeFail ==
  /\ pc = "print"
  /\ \E e \in ErrTexts : exc' = e
  /\ Log("dumps_raise")
  /\ pc' = "except"
  /\ UNCHANGED <<inputs, files, tmpContent, tmpClosed, stdinBuf, audio_file, temp_file,
                 consumed, text_parts, info, result, pending, stdout, exitCode, uncaught>>

\* variant of HandleException: sys.exit(1) placed before the print, which never runs
HandleException_ExitFirst ==
  /\ pc = "except"
  /\ pending' = "SystemExit"
  /\ pc' = "finally"
  /\ UNCHANGED <<inputs, files, tmpContent, tmpClosed, stdinBuf, audio_file, temp_file,
                 consumed, text_parts, info, result, exc, stdout, exitCode, uncaught,
                 events>>

\* variant of HandleException: the handler ends the process at once (os._exit(1)),
\* so the finally block never runs
HandleException_HardExit ==
  /\ pc = "except"
  /\ stdout' = Append(stdout, TranscriptionErrorResult(exc))
  /\ Log("stdout_write")
  /\ Exit(1, None)
  /\ UNCHANGED <<inputs, files, tmpContent, tmpClosed, stdinBuf, audio_file, temp_file,
                 consumed, text_parts, info, result, exc, pending>>

\* --------------------------------------------- lines 81-86: the handler
\* print the failure Result; sys.exit(1) raises SystemExit, which passes through finally
HandleException ==
  /\ pc = "except"
  /\ stdout' = Append(stdout, TranscriptionErrorResult(exc))
  /\ Log("stdout_write")
  /\ pending' = "SystemExit"
  /\ pc' = "finally"
  /\ UNCHANGED <<inputs, files, tmpContent, tmpClosed, stdinBuf, audio_file, temp_file,
                 consumed, text_parts, info, result, exc, exitCode, uncaught>>

\* --------------------------------------------- lines 88-91: the cleanup
\* the finally block is left without a new exception: SystemExit(1) resumes if it
\* was in flight, otherwise main() returns and the interpreter exits with 0
LeaveFinally ==
  IF pending = "SystemExit" THEN Exit(1, None) ELSE Exit(0, None)

\* line 90 with temp_file None: the condition is false without any file-system call
FinallyNoTemp ==
  /\ pc = "finally"
  /\ temp_file = None
  /\ LeaveFinally
  /\ UNCHANGED <<inputs, files, tmpContent, tmpClosed, stdinBuf, audio_file, temp_file,
                 consumed, text_parts, info, result, exc, pending, stdout, events>>

\* line 90: os.path.exists(temp_file.name) is true; go on to line 91
FinallyExists ==
  /\ pc = "finally"
  /\ temp_file # None
  /\ temp_file \in files
  /\ Log("exists_check")
  /\ pc' = "unlink"
  /\ UNCHANGED <<inputs, files, tmpContent, tmpClosed, stdinBuf, audio_file, temp_file,
                 consumed, text_parts, info, result, exc, pending, stdout, exitCode,
                 uncaught>>

\* line 90: os.path.exists(temp_file.name) is false; nothing to delete
FinallyGone ==
  /\ pc = "finally"
  /\ temp_file # None
  /\ temp_file \notin files
  /\ Log("exists_check")
  /\ LeaveFinally
  /\ UNCHANGED <<inputs, files, tmpContent, tmpClosed, stdinBuf, audio_file, temp_file,
                 consumed, text_parts, info, result, exc, pending, stdout>>

\* line 91: os.unlink(temp_file.name) removes the file
UnlinkOk ==
  /\ pc = "unlink"
  /\ temp_file \in files
  /\ files' = files \ {temp_file}
  /\ Log("unlink")
  /\ LeaveFinally
  /\ UNCHANGED <<inputs, tmpContent, tmpClosed, stdinBuf, audio_file, temp_file,
                 consumed, text_parts, info, result, exc, pending, stdout>>

\* line 91: the file was removed after the check of line 90: FileNotFoundError,
\* raised inside finally, replaces whatever was in flight and is not handled
UnlinkMissing ==
  /\ pc = "unlink"
  /\ temp_file \notin files
  /\ Log("unlink_raise")
  /\ Exit(1, "FileNotFoundError")
  /\ UNCHANGED <<inputs, files, tmpContent, tmpClosed, stdinBuf, audio_file, temp_file,
                 consumed, text_parts, info, result, exc, pending, stdout>>

\* line 91: the operating system refuses the deletion (PermissionError); not handled
UnlinkDenied ==
  /\ pc = "unlink"
  /\ temp_file \in files
  /\ Log("unlink_raise")
  /\ Exit(1, "PermissionError")
  /\ UNCHANGED <<inputs, files, tmpContent, tmpClosed, stdinBuf, audio_file, temp_file,
                 consumed, text_parts, info, result, exc, pending, stdout>>

\* ------------------------------------------------------- the environment
\* another process removes the temporary file while the invocation runs
ExternalRemove ==
  /\ pc # "done"
  /\ TmpPath \in files
  /\ files' = files \ {TmpPath}
  /\ UNCHANGED <<inputs, pc, tmpContent, tmpClosed, stdinBuf, audio_file, temp_file,
                 consumed, text_parts, info, result, exc, pending, stdout, exitCode,
                 uncaught, events>>

\* ---------------------------------------------------------- specification
Next ==
  \/ ImportOk \/ ImportMissing
  \/ LoadModelOk \/ LoadModelFail
  \/ ResolveSource
  \/ MakeTempOk \/ MakeTempFail
  \/ ReadStdinOk \/ ReadStdinFail
  \/ WriteTempOk \/ WriteTempFail
  \/ CloseTempOk \/ CloseTempFail
  \/ TranscribeOk \/ TranscribeFail
  \/ PullSegment \/ PullFail \/ PullEnd
  \/ BuildResult \/ BuildResultFail
  \/ PrintResult \/ SerializeFail
  \/ HandleException
  \/ FinallyNoTemp \/ FinallyExists \/ FinallyGone
  \/ UnlinkOk \/ UnlinkMissing \/ UnlinkDenied
  \/ ExternalRemove

Spec == Init /\ [][Next]_vars

\* The steps of main() itself (every action but the environment's). Under the
\* assumptions that standard input reaches end-of-stream and that every external
\* call returns or raises, the interpreter always takes the next step of main().
ProgramStep ==
  \/ ImportOk \/ ImportMissing
  \/ LoadModelOk \/ LoadModelFail
  \/ ResolveSource
  \/ MakeTempOk \/ MakeTempFail
  \/ ReadStdinOk \/ ReadStdinFail
  \/ WriteTempOk \/ WriteTempFail
  \/ CloseTempOk \/ CloseTempFail
  \/ TranscribeOk \/ TranscribeFail
  \/ PullSegment \/ PullFail \/ PullEnd
  \/ BuildResult \/ BuildResultFail
  \/ PrintResult \/ SerializeFail
  \/ HandleException
  \/ FinallyNoTemp \/ FinallyExists \/ FinallyGone
  \/ UnlinkOk \/ UnlinkMissing \/ UnlinkDenied

FairSpec == Init /\ [][Next]_vars /\ WF_vars(ProgramStep)

\* ------------------------------------------------ vocabulary of the claims
Done == pc = "done"
Happened(e) == \E i \in DOMAIN events : events[i] = e
Times(e) == Cardinality({i \in DOMAIN events : events[i] = e})

SuccessKeys == {"success", "text", "language", "language_probability", "duration"}
FailureKeys == {"success", "error"}
IsSuccessResult(r) == DOMAIN r = SuccessKeys /\ r.success = TRUE
IsFailureResult(r) == DOMAIN r = FailureKeys /\ r.success = FALSE

StdinTouched == Happened("stdin_read") \/ Happened("stdin_read_raise")
TempCreated == Happened("tmp_create")
DeletionRequested == Happened("unlink") \/ Happened("unlink_raise")

\* C1: when the process has terminated, exactly one Result has been written to
\* standard output, and it has the success shape or the failure shape.
C1_ExactlyOneResult ==
  Done => /\ Len(stdout) = 1
          /\ IsSuccessResult(stdout[1]) \/ IsFailureResult(stdout[1])

\* C2: without --file, once the temporary file has been created it does not exist
\* when the process has terminated, whatever step failed after its creation
\* (stated even granting the case where the operating system refuses the deletion).
C2_TempFileGoneAtExit ==
  (Done /\ TempCreated /\ uncaught # "PermissionError") => TmpPath \notin files

\* C3: when reading standard input raised, the process ends with exactly one failure
\* Result on standard output and a non-zero exit status.
C3_StdinFailureReported ==
  (Done /\ Happened("stdin_read_raise")) =>
     /\ Len(stdout) = 1
     /\ IsFailureResult(stdout[1])
     /\ exitCode # 0

\* C4: whenever a value was supplied for --file (any value, the empty string
\* included), standard input is never read, no temporary file is created and no
\* file is deleted; the caller's file stays in place.
C4_FileGivenTouchesNothing ==
  argFile # None =>
     /\ ~StdinTouched
     /\ ~TempCreated
     /\ ~Happened("mktemp_raise")
     /\ ~DeletionRequested
     /\ UserPath \in files

\* the import raised ImportError, or the engine constructor raised
EngineFailed == Happened("import_raise") \/ Happened("ctor_raise")

\* C5: if the engine cannot be imported or its constructor raises, the invocation
\* ends at once with exactly one failure Result and a non-zero status, without
\* having read standard input, created a temporary file, called transcribe or run
\* any cleanup step.
C5_EngineFailureShortCircuits ==
  EngineFailed =>
     /\ Done
     /\ exitCode = 1
     /\ Len(stdout) = 1
     /\ IsFailureResult(stdout[1])
     /\ ~StdinTouched
     /\ ~TempCreated /\ ~Happened("mktemp_raise") /\ TmpPath \notin files
     /\ ~Happened("transcribe") /\ ~Happened("transcribe_raise")
     /\ ~Happened("exists_check") /\ ~DeletionRequested

\* C5 witness: a run that ended in the constructor's failure, without --file
C5_Witness ==
  /\ Done
  /\ Happened("ctor_raise")
  /\ stdout = <<ModelErrorResult("e1")>>
  /\ argFile = None

\* C6: a failure of the temporary file's deletion is swallowed: no unhandled error
\* ends the process, a success Result is still followed by exit status zero, and a
\* failure Result by a non-zero status.
C6_CleanupFailureSwallowed ==
  (Done /\ Happened("unlink_raise")) =>
     /\ uncaught = None
     /\ Len(stdout) = 1
     /\ exitCode = (IF stdout[1].success THEN 0 ELSE 1)

\* C7 as claimed: the write of the Result is the last observable action: the owned
\* temporary file has been deleted before the write and nothing touches the file
\* system after it.
C7_ResultWrittenLast ==
  \A i \in DOMAIN events :
     events[i] = "stdout_write" =>
        /\ \A j \in DOMAIN events :
              j > i => events[j] \notin {"exists_check", "unlink", "unlink_raise"}
        /\ (\E k \in 1..i : events[k] = "tmp_create")
              => \E k \in 1..i : events[k] = "unlink"

\* C7 as amended: cleanup follows the write. The existence check and the deletion
\* of the temporary file happen only after a Result has been written, the deletion
\* is the invocation's last call, and nothing is written to standard output after
\* the cleanup has begun.
C7_CleanupFollowsResult ==
  \A j \in DOMAIN events :
     /\ events[j] \in {"exists_check", "unlink", "unlink_raise"}
           => /\ \E i \in 1..j : events[i] = "stdout_write"
              /\ \A i \in DOMAIN events : i > j => events[i] # "stdout_write"
     /\ events[j] \in {"unlink", "unlink_raise"} => j = Len(events)

\* C7 witness: a finished run that wrote a success Result and then deleted its file
C7_Witness ==
  /\ Done
  /\ Happened("unlink")
  /\ Len(stdout) = 1
  /\ stdout[1].success
  /\ TmpPath \notin files

\* The string the engine's fragments make when joined with one space, described
\* position by position from segs: its length and its p-th character.
RECURSIVE SumLens(_, _)
SumLens(ss, k) == IF k = 0 THEN 0 ELSE SumLens(ss, k - 1) + Len(ss[k])

\* number of characters of the joined string before the first one of segment k
SegStart(k) == SumLens(segs, k - 1) + (k - 1)

JoinedLen == IF segs = << >> THEN 0 ELSE SegStart(Len(segs)) + Len(segs[Len(segs)])

JoinedChar(p) ==
  LET owners == {k \in DOMAIN segs : (p - SegStart(k)) \in 1..Len(segs[k])}
  IN  IF owners = {} THEN " "
      ELSE LET k == CHOOSE k \in owners : TRUE IN segs[k][p - SegStart(k)]

IsTrimmedJoin(text) ==
  \E a \in 0..JoinedLen : \E b \in a..JoinedLen :
     /\ \A p \in 1..a : JoinedChar(p) \in Whitespace
     /\ \A p \in (b + 1)..JoinedLen : JoinedChar(p) \in Whitespace
     /\ Len(text) = b - a
     /\ \A i \in 1..(b - a) : text[i] = JoinedChar(a + i)
     /\ text # << >> => text[1] \notin Whitespace /\ text[Len(text)] \notin Whitespace

\* C8: the text of a success Result is the engine's fragments, all of them, in
\* production order, joined with one space, with the leading and trailing
\* whitespace of the joined string removed; for no segment it is the empty string.
C8_TextIsTrimmedJoin ==
  \A i \in DOMAIN stdout :
     stdout[i].success =>
        /\ IsTrimmedJoin(stdout[i].text)
        /\ segs = << >> => stdout[i].text = << >>

\* C8 witness: two segments with outer whitespace, printed as "b a"
C8_Witness ==
  /\ Done
  /\ Len(stdout) = 1
  /\ stdout[1].success
  /\ segs = << <<" ", "b">>, <<"a", " ">> >>
  /\ stdout[1].text = <<"b", " ", "a">>

\* the engine raised, at the call of transcribe or at a segment pull
EngineRaised == Happened("transcribe_raise") \/ Happened("pull_raise")

\* C9 as claimed: an engine failure, at the call of transcribe or at any pull, ends
\* with exactly one failure Result carrying the error's text, a non-zero status, and
\* the temporary file (if one was created) deleted.
C9_EngineFailureDeletesTemp ==
  (Done /\ EngineRaised) =>
     /\ Len(stdout) = 1
     /\ IsFailureResult(stdout[1])
     /\ stdout[1].error = <<"Transcription failed: ", exc>>
     /\ exitCode # 0
     /\ TempCreated => TmpPath \notin files

\* C9 as amended: the same, at either place of failure, except that the temporary
\* file may remain when the operating system itself refuses its deletion.
C9_EngineFailureHandledAlike ==
  (Done /\ EngineRaised) =>
     /\ Len(stdout) = 1
     /\ IsFailureResult(stdout[1])
     /\ stdout[1].error = <<"Transcription failed: ", exc>>
     /\ exitCode # 0
     /\ TempCreated =>
           \/ TmpPath \notin files
           \/ uncaught = "PermissionError" /\ events[Len(events)] = "unlink_raise"

\* C9 witness: a pull raised after a segment was consumed; the file was deleted
C9_Witness ==
  /\ Done
  /\ Happened("pull_raise")
  /\ consumed >= 1
  /\ TempCreated
  /\ Happened("unlink")
  /\ stdout = <<TranscriptionErrorResult("e2")>>

\* C10: the deletion of the temporary file is requested at most once and never
\* raises because the file is no longer there, also when another process removes
\* the file between the existence check and the deletion.
C10_DeletionToleratesMissingFile ==
  /\ Times("unlink") + Times("unlink_raise") <= 1
  /\ uncaught # "FileNotFoundError"

\* C11: the exit status is zero exactly when the Result written was a success: a
\* terminated run that wrote a success Result has status 0, one that wrote a
\* failure Result has a non-zero status.
C11_ExitStatusMatchesResult ==
  (Done /\ Len(stdout) >= 1) =>
     /\ stdout[1].success => exitCode = 0
     /\ ~stdout[1].success => exitCode # 0

\* C12: the metadata fields are read only after the segment sequence is exhausted:
\* whenever a metadata read has happened, the pull that reported the end of the
\* sequence came before it and no segment is left unconsumed; a success Result is
\* built and written only in such a run.
C12_MetadataAfterExhaustion ==
  /\ \A j \in DOMAIN events :
        events[j] \in {"meta_read", "meta_read_raise"} =>
           /\ \E i \in 1..j : events[i] = "pull_end"
           /\ consumed = Len(segs)
  /\ (result # << >> \/ \E i \in DOMAIN stdout : stdout[i].success) =>
        /\ Happened("pull_end")
        /\ consumed = Len(segs)
        /\ Len(text_parts) = Len(segs)

\* C12 witness: the metadata was read after two segments and the end were pulled
C12_Witness ==
  /\ pc = "print"
  /\ Happened("meta_read")
  /\ Len(segs) = 2
  /\ consumed = 2
  /\ Times("pull") = 2

\* the history entries that record a call that raised
RaiseEvents ==
  {"import_raise", "ctor_raise", "mktemp_raise", "stdin_read_raise", "tmp_write_raise",
   "tmp_close_raise", "transcribe_raise", "pull_raise", "meta_read_raise",
   "dumps_raise", "unlink_raise"}

\* what may still follow a failure: the write of the Result and the cleanup calls
AfterFailureEvents == {"stdout_write", "exists_check", "unlink", "unlink_raise"}

\* C13: an invocation is single-shot: the engine constructor, the transcription
\* operation and the source acquisition are each called at most once, and once any
\* call has raised nothing is attempted again: only the write of the failure
\* Result and the cleanup calls follow.
C13_SingleShot ==
  /\ Times("ctor") + Times("ctor_raise") <= 1
  /\ Times("transcribe") + Times("transcribe_raise") <= 1
  /\ Times("import_raise") <= 1
  /\ Times("tmp_create") + Times("mktemp_raise") <= 1
  /\ Times("stdin_read") + Times("stdin_read_raise") <= 1
  /\ \A i \in DOMAIN events :
        events[i] \in RaiseEvents =>
           \A j \in DOMAIN events : j > i => events[j] \in AfterFailureEvents

\* C13 witness: transcribe raised once, the failure was reported and the file deleted
C13_Witness ==
  /\ Done
  /\ Times("ctor") = 1
  /\ Times("transcribe_raise") = 1
  /\ Happened("unlink")
  /\ exitCode = 1

\* every occurrence of call b in the history has an occurrence of call a before it
Precedes(a, b) ==
  \A j \in DOMAIN events : events[j] = b => \E i \in 1..(j - 1) : events[i] = a

\* the call of model.transcribe is about to be made, or has been made
TranscribeReached ==
  pc = "transcribe" \/ Happened("transcribe") \/ Happened("transcribe_raise")

\* C14: without --file, when transcribe is called the bytes written through the
\* temporary file's handle are exactly the complete standard-input byte sequence,
\* the handle has been closed (read, write, close came in this order before the
\* call), and the path handed to the engine is the temporary file's path.
C14_TranscribeAfterFullCopy ==
  (argFile = None /\ TranscribeReached) =>
     /\ tmpContent = stdinData
     /\ tmpClosed
     /\ temp_file = TmpPath
     /\ audio_file = TmpPath
     /\ Happened("tmp_close")
     /\ Precedes("stdin_read", "tmp_write")
     /\ Precedes("tmp_write", "tmp_close")
     /\ Precedes("tmp_close", "transcribe")
     /\ Precedes("tmp_close", "transcribe_raise")

\* C14 witness: transcribe was called on the copy of a two-byte standard input
C14_Witness ==
  /\ pc = "pull"
  /\ argFile = None
  /\ stdinData = <<1, 0>>
  /\ tmpContent = <<1, 0>>
  /\ Happened("transcribe")

\* the lifecycle state a position of main() belongs to, as its place in the order
\* Start/CapabilityCheck, ModelInit, SourceAcquired, Transcribing, Succeeded or
\* Failed, Cleaned up, Terminal (Succeeded is the step from "print" to "finally")
Lifecycle(p) ==
  CASE p = "import" -> 1
    [] p = "load_model" -> 2
    [] p \in {"resolve", "mktemp", "read_stdin", "write_tmp", "close_tmp"} -> 3
    [] p \in {"transcribe", "pull", "build", "print"} -> 4
    [] p = "except" -> 5
    [] p \in {"finally", "unlink"} -> 6
    [] p = "done" -> 7

\* C15: every invocation eventually terminates; it moves through the lifecycle
\* states only forward in their order, never returning to one it has left; and
\* once Transcribing has been reached, the process terminates only from the
\* cleanup (the finally block).
C15_TerminatesInOrder ==
  /\ <>Done
  /\ [][Lifecycle(pc') >= Lifecycle(pc)]_vars
  /\ [][(pc' = "done" /\ pc # "done" /\ Lifecycle(pc) >= 4)
           => pc \in {"finally", "unlink"}]_vars

\* C15 witness: a terminated run that went through every lifecycle state
C15_Witness ==
  /\ Done
  /\ exitCode = 0
  /\ events = <<"ctor", "tmp_create", "stdin_read", "tmp_write", "tmp_close",
                "transcribe", "pull", "pull", "pull_end", "meta_read",
                "stdout_write", "exists_check", "unlink">>

\* a call inside the guarded region (lines 57-79) raised
GuardedRaise ==
  \/ Happened("transcribe_raise") \/ Happened("pull_raise")
  \/ Happened("meta_read_raise") \/ Happened("dumps_raise")

\* C16: a success Result, and with it the collected text, is written only when every
\* pull succeeded and nothing else in the guarded region raised; a run in which a
\* metadata read or the serialisation raises after all segments were collected
\* writes the failure Result alone, and nothing of the collected fragments.
C16_NoPartialText ==
  /\ GuardedRaise => \A i \in DOMAIN stdout : ~stdout[i].success
  /\ (Done /\ GuardedRaise) =>
        /\ Len(stdout) = 1
        /\ IsFailureResult(stdout[1])
        /\ stdout[1].error = <<"Transcription failed: ", exc>>
  /\ (\E i \in DOMAIN stdout : stdout[i].success) =>
        /\ Times("pull") = Len(segs)
        /\ Happened("pull_end")

\* C16 witness: two fragments were collected, the serialisation raised, and only the
\* failure Result was written
C16_Witness ==
  /\ Done
  /\ Happened("dumps_raise")
  /\ Len(text_parts) = 2
  /\ stdout = <<TranscriptionErrorResult("e1")>>

====
